---- MODULE Spec2Model ----
(***************************************************************************)
(* The thinking updater of src/telegram/thinking-updater.ts: a session     *)
(* that accumulates a thinking text and tool entries, renders them, and    *)
(* delivers the render to one remote message through a rate-limited,       *)
(* single-flight dispatcher.                                               *)
(*                                                                         *)
(* A JavaScript string is a sequence of UTF-16 code units; each unit is a  *)
(* one-element TLA+ string.  Units outside ASCII are written by their code *)
(* point ("U2026" is the ellipsis).  An optional value (string |           *)
(* undefined) is a sequence of length 0 (undefined) or 1.                  *)
(***************************************************************************)
EXTENDS Integers, Sequences, FiniteSets, TLC

(***************************************************************************)
(* String helpers                                                          *)
(***************************************************************************)
RECURSIVE JoinFrom(_, _, _)
\* The parts from the i-th on, separated by sep.
JoinFrom(parts, sep, i) ==
    IF i > Len(parts) THEN <<>>
    ELSE IF i = Len(parts) THEN parts[i]
    ELSE parts[i] \o sep \o JoinFrom(parts, sep, i + 1)

\* Array.prototype.join: the parts separated by sep.
Join(parts, sep) ==
    JoinFrom(parts, sep, 1)

\* String/Array.prototype.slice(start): a negative start counts from the end
\* (slice(-0) is slice(0), the whole sequence).
Slice(s, start) ==
    LET from == IF start < 0
                THEN (IF Len(s) + start > 0 THEN Len(s) + start ELSE 0)
                ELSE (IF start < Len(s) THEN start ELSE Len(s))
    IN  SubSeq(s, from + 1, Len(s))

\* String.prototype.slice(0, end) for end >= 0.
SliceTo(s, end) ==
    IF end >= Len(s) THEN s ELSE SubSeq(s, 1, end)

\* The code units String.prototype.trim removes (those the inputs use).
WhiteSpace ==
    {" ", "\t", "\n", "\r"}

\* String.prototype.trim: from the first to the last unit that is not white
\* space.
Trim(s) ==
    LET keep == {i \in 1..Len(s) : s[i] \notin WhiteSpace}
    IN  IF keep = {} THEN <<>>
        ELSE SubSeq(s, CHOOSE i \in keep : \A j \in keep : i <= j,
                       CHOOSE i \in keep : \A j \in keep : i >= j)

\* String.prototype.toLowerCase on the letters tool names use.
LowerUnit(c) ==
    CASE c = "R" -> "r" [] c = "E" -> "e" [] c = "A" -> "a" [] c = "D" -> "d"
      [] OTHER -> c

ToLowerCase(s) ==
    [i \in 1..Len(s) |-> LowerUnit(s[i])]

RECURSIVE ReplaceFrom(_, _, _, _)
\* The units of text from the i-th on, each c replaced by rep.
ReplaceFrom(text, c, rep, i) ==
    IF i > Len(text) THEN <<>>
    ELSE (IF text[i] = c THEN rep ELSE <<text[i]>>)
         \o ReplaceFrom(text, c, rep, i + 1)

\* text.replace(/c/g, rep) for a one-unit pattern c.
ReplaceAll(text, c, rep) ==
    ReplaceFrom(text, c, rep, 1)

\* escapeHtml: & first, then <, then >.
escapeHtml(text) ==
    ReplaceAll(ReplaceAll(ReplaceAll(text, "&", <<"&", "a", "m", "p", ";">>),
                          "<", <<"&", "l", "t", ";">>),
               ">", <<"&", "g", "t", ";">>)

\* The decimal digits of a natural number (template-literal number formatting).
Digit(d) ==
    <<"0", "1", "2", "3", "4", "5", "6", "7", "8", "9">>[d + 1]

RECURSIVE NumberToString(_)
NumberToString(n) ==
    IF n < 10 THEN <<Digit(n)>>
    ELSE NumberToString(n \div 10) \o <<Digit(n % 10)>>

(***************************************************************************)
(* Configuration of the session (createThinkingUpdater's params)           *)
(***************************************************************************)
\* thinkingConfig.updateInterval, in clock ticks.
updateInterval ==
    2

\* thinkingConfig.maxLength: the thinking block keeps maxLength - 200 units.
maxLength ==
    201

\* params.toolDisplay; an absent field is <<>>.
toolDisplay ==
    [enabled |-> <<>>, showArgs |-> <<>>, maxArgsLength |-> <<3>>]

(***************************************************************************)
(* Renderer                                                                *)
(***************************************************************************)
\* An argument value: a string, or a value of another type.
StringVal(str) ==
    [type |-> "string", str |-> str]

NumberVal ==
    [type |-> "number", str |-> <<>>]

TOOL_ARG_EXTRACTORS ==
    (<<"r", "e", "a", "d">> :> <<"path">>)
    @@ (<<"w", "r", "i", "t", "e">> :> <<"path">>)
    @@ (<<"e", "d", "i", "t">> :> <<"file_path">>)
    @@ (<<"e", "x", "e", "c">> :> <<"command">>)
    @@ (<<"b", "a", "s", "h">> :> <<"command">>)
    @@ (<<"s", "e", "a", "r", "c", "h">> :> <<"pattern", "query">>)
    @@ (<<"g", "r", "e", "p">> :> <<"pattern">>)
    @@ (<<"g", "l", "o", "b">> :> <<"pattern">>)
    @@ (<<"w", "e", "b", "_", "s", "e", "a", "r", "c", "h">> :> <<"query">>)
    @@ (<<"w", "e", "b", "_", "f", "e", "t", "c", "h">> :> <<"url">>)
    @@ (<<"l", "i", "s", "t", "_", "d", "i", "r", "e", "c", "t", "o", "r", "y">>
           :> <<"path">>)

\* args[key] of an ordered mapping (a sequence of key/val records): <<>> when
\* the key is absent.
ArgOf(mapping, key) ==
    LET at == {i \in 1..Len(mapping) : mapping[i].key = key}
    IN  IF at = {} THEN <<>> ELSE <<mapping[CHOOSE i \in at : TRUE].val>>

\* typeof val === "string" && val.trim()
UsableArg(val) ==
    val.type = "string" /\ Trim(val.str) # <<>>

\* trimmed.length > maxLen ? trimmed.slice(0, maxLen) + "\u2026" : trimmed
ClipArg(val, maxLen) ==
    LET trimmed == Trim(val.str)
    IN  IF Len(trimmed) > maxLen
        THEN SliceTo(trimmed, maxLen) \o <<"U2026">> ELSE trimmed

\* The first key of keys whose argument is a non-blank string: <<val>> or <<>>.
FirstKeyed(mapping, keys) ==
    LET hits == {k \in 1..Len(keys) :
                   /\ ArgOf(mapping, keys[k]) # <<>>
                   /\ UsableArg(ArgOf(mapping, keys[k])[1])}
    IN  IF hits = {} THEN <<>>
        ELSE ArgOf(mapping, keys[CHOOSE k \in hits : \A j \in hits : k <= j])

\* The first non-blank string among Object.values(args): <<val>> or <<>>.
FirstString(mapping) ==
    LET hits == {i \in 1..Len(mapping) : UsableArg(mapping[i].val)}
    IN  IF hits = {} THEN <<>>
        ELSE <<mapping[CHOOSE i \in hits : \A j \in hits : i <= j].val>>

extractToolArgs(name, args, maxLen) ==
    IF args = <<>> THEN <<>>
    ELSE LET mapping == args[1]
             lower == ToLowerCase(name)
             keyed == IF lower \in DOMAIN TOOL_ARG_EXTRACTORS
                      THEN FirstKeyed(mapping, TOOL_ARG_EXTRACTORS[lower])
                      ELSE <<>>
             fallback == FirstString(mapping)
         IN  IF keyed # <<>> THEN ClipArg(keyed[1], maxLen)
             ELSE IF fallback # <<>> THEN ClipArg(fallback[1], maxLen)
             ELSE <<>>

\* One line of the tool section: icon <code>name</code> [args].
ToolLine(icon, entry, display) ==
    LET argStr == IF display.showArgs # <<FALSE>>
                  THEN extractToolArgs(entry.name, entry.args,
                         IF display.maxArgsLength = <<>> THEN 150
                         ELSE display.maxArgsLength[1])
                  ELSE <<>>
        code == <<icon, " ", "<", "c", "o", "d", "e", ">">>
                \o escapeHtml(entry.name)
                \o <<"<", "/", "c", "o", "d", "e", ">">>
    IN  IF argStr # <<>> THEN code \o <<" ">> \o escapeHtml(argStr) ELSE code

\* The parts pushed for the thinking text (none when it is undefined or "").
ThinkingParts(text, maxLen) ==
    IF text = <<>> \/ text[1] = <<>> THEN <<>>
    ELSE LET t == text[1]
             trimmed == IF Len(t) > maxLen - 200
                        THEN <<"U2026">> \o Slice(t, -(maxLen - 200)) ELSE t
         IN  << <<"UD83E", "UDDE0", " ", "<", "b", ">", "T", "h", "i", "n", "k",
                  "i", "n", "g", "<", "/", "b", ">">>,
                <<>>,
                <<"<", "b", "l", "o", "c", "k", "q", "u", "o", "t", "e", ">">>
                \o escapeHtml(trimmed)
                \o <<"<", "/", "b", "l", "o", "c", "k", "q", "u", "o", "t", "e",
                      ">">> >>

\* Mutant of ToolParts: the first ten completed entries are shown.
ToolParts_FirstTen(activeTools, completedTools, display, nonEmpty) ==
    IF display.enabled # <<FALSE>>
       /\ (Len(activeTools) > 0 \/ Len(completedTools) > 0)
    THEN LET shown == SliceTo(completedTools, 10)
         IN  (IF nonEmpty THEN << <<>> >> ELSE <<>>)
             \o [i \in 1..Len(shown) |->
                    ToolLine(IF shown[i].failed THEN "U274C" ELSE "U2705",
                             shown[i], display)]
             \o [i \in 1..Len(activeTools) |->
                    ToolLine("U23F3", activeTools[i].entry, display)]
    ELSE <<>>

\* The parts pushed for the tool section.
ToolParts(activeTools, completedTools, display, nonEmpty) ==
    IF display.enabled # <<FALSE>>
       /\ (Len(activeTools) > 0 \/ Len(completedTools) > 0)
    THEN LET shown == Slice(completedTools, -10)
         IN  (IF nonEmpty THEN << <<>> >> ELSE <<>>)
             \o [i \in 1..Len(shown) |->
                    ToolLine(IF shown[i].failed THEN "U274C" ELSE "U2705",
                             shown[i], display)]
             \o [i \in 1..Len(activeTools) |->
                    ToolLine("U23F3", activeTools[i].entry, display)]
    ELSE <<>>

buildMessage(text, activeTools, completedTools, display, maxLen) ==
    LET thinking == ThinkingParts(text, maxLen)
        parts == thinking
                 \o ToolParts(activeTools, completedTools, display,
                              Len(thinking) > 0)
        all == IF Len(parts) = 0
               THEN << <<"UD83E", "UDDE0", " ", "<", "b", ">", "T", "h", "i",
                         "n", "k", "i", "n", "g", "U2026", "<", "/", "b", ">">> >>
               ELSE parts
        result == Join(all, <<"\n">>)
    IN  IF Len(result) > 4096 THEN SliceTo(result, 4093) \o <<"U2026">>
        ELSE result

(***************************************************************************)
(* Bounds and inputs of the model                                          *)
(***************************************************************************)
\* The clock stops at MaxTime.
MaxTime ==
    4

\* Transport calls outstanding at once (delete and collapse can be repeated).
MaxCalls ==
    2

\* The completed-tool sequence is not grown beyond MaxCompleted entries.
MaxCompleted ==
    1

\* Texts handed to update(): "" (rendered as no text at all) and "b<" (cut to
\* its last maxLength - 200 = 1 unit, which is escaped).
Texts ==
    {<<>>, <<"b", "<">>}

ToolIds ==
    {"t1"}

\* (name, args) pairs handed to toolStart().
ToolInputs ==
    {[name |-> <<"R", "e", "a", "d">>,
      args |-> << <<[key |-> "n", val |-> NumberVal],
                    [key |-> "path",
                     val |-> StringVal(<<" ", "/", "a", "/", "b", " ">>)]>> >>]}

\* Summaries handed to collapse(): none, "", "ok".
Summaries ==
    {<<>>, << <<>> >>, << <<"o", "k">> >>}

(***************************************************************************)
(* State                                                                   *)
(***************************************************************************)
VARIABLES
    messageId,        \* 0 is undefined
    thinkingText,     \* <<>> is undefined, <<text>> a string
    activeTools,      \* the Map, in insertion order: [id, entry] records
    completedTools,
    lastSentContent,
    lastSentAt,
    timer,            \* <<>> is undefined, <<t>> a timeout due at time t
    inFlight,
    stopped,
    pendingUpdate,
    calls,            \* transport calls issued and not yet settled
    resume,           \* doFlush awaits a sendOrEdit that made no call
    now,              \* Date.now()
    created,          \* messages the transport has created
    log,              \* observer: <<>>, or the delivery call last started
    burst             \* observer of the burst scenario (SpecBurst)

vars ==
    <<messageId, thinkingText, activeTools, completedTools, lastSentContent,
      lastSentAt, timer, inFlight, stopped, pendingUpdate, calls, resume, now,
      created, log, burst>>

\* The closure's state as one value, for the functions below.
Cur ==
    [messageId |-> messageId, thinkingText |-> thinkingText,
     activeTools |-> activeTools, completedTools |-> completedTools,
     lastSentContent |-> lastSentContent, lastSentAt |-> lastSentAt,
     timer |-> timer, inFlight |-> inFlight, stopped |-> stopped,
     pendingUpdate |-> pendingUpdate, calls |-> calls, resume |-> resume,
     log |-> log]

Commit(S) ==
    /\ messageId' = S.messageId
    /\ thinkingText' = S.thinkingText
    /\ activeTools' = S.activeTools
    /\ completedTools' = S.completedTools
    /\ lastSentContent' = S.lastSentContent
    /\ lastSentAt' = S.lastSentAt
    /\ timer' = S.timer
    /\ inFlight' = S.inFlight
    /\ stopped' = S.stopped
    /\ pendingUpdate' = S.pendingUpdate
    /\ calls' = S.calls
    /\ resume' = S.resume
    /\ log' = S.log

Init ==
    /\ messageId = 0
    /\ thinkingText = <<>>
    /\ activeTools = <<>>
    /\ completedTools = <<>>
    /\ lastSentContent = <<>>
    /\ lastSentAt = 0
    /\ timer = <<>>
    /\ inFlight = FALSE
    /\ stopped = FALSE
    /\ pendingUpdate = FALSE
    /\ calls = <<>>
    /\ resume = FALSE
    /\ now = updateInterval     \* the epoch is long past: now - 0 >= interval
    /\ created = 0
    /\ log = <<>>
    /\ burst = [n |-> 0, first |-> 0, text |-> <<>>, used |-> {}, sends |-> 0]

(***************************************************************************)
(* The dispatcher                                                          *)
(***************************************************************************)
\* Mutant of sendOrEdit: content equal to the last sent content is sent again.
sendOrEdit_NoDedupe(S, content, via) ==
    IF S.stopped THEN [S EXCEPT !.resume = TRUE]
    ELSE LET op == IF S.messageId = 0 THEN "sendMessage" ELSE "editMessageText"
             call == [op |-> op, by |-> "sendOrEdit", messageId |-> S.messageId,
                      text |-> content, prevContent |-> S.lastSentContent,
                      prevAt |-> S.lastSentAt]
         IN  [S EXCEPT !.lastSentContent = content,
                       !.lastSentAt = now,
                       !.calls = Append(@, call),
                       !.log = <<[text |-> content, at |-> now, op |-> op,
                                  via |-> via]>>]

\* sendOrEdit, up to its await; `via` labels the caller for the observer.
sendOrEdit(S, content, via) ==
    IF S.stopped \/ content = S.lastSentContent
    THEN [S EXCEPT !.resume = TRUE]
    ELSE LET op == IF S.messageId = 0 THEN "sendMessage" ELSE "editMessageText"
             call == [op |-> op, by |-> "sendOrEdit", messageId |-> S.messageId,
                      text |-> content, prevContent |-> S.lastSentContent,
                      prevAt |-> S.lastSentAt]
         IN  [S EXCEPT !.lastSentContent = content,
                       !.lastSentAt = now,
                       !.calls = Append(@, call),
                       !.log = <<[text |-> content, at |-> now, op |-> op,
                                  via |-> via]>>]

\* Mutant of doFlush: the inFlight guard is missing.
doFlush_NoInFlightGuard(S, via) ==
    IF S.stopped THEN S
    ELSE LET S1 == [S EXCEPT !.timer = <<>>]
         IN  sendOrEdit([S1 EXCEPT !.inFlight = TRUE],
                        buildMessage(S1.thinkingText, S1.activeTools,
                                     S1.completedTools, toolDisplay, maxLength),
                        via)

\* Mutant of doFlush: the armed timer is left armed.
doFlush_KeepsTimer(S, via) ==
    IF S.stopped THEN S
    ELSE IF S.inFlight THEN [S EXCEPT !.pendingUpdate = TRUE]
    ELSE sendOrEdit([S EXCEPT !.inFlight = TRUE],
                    buildMessage(S.thinkingText, S.activeTools,
                                 S.completedTools, toolDisplay, maxLength),
                    via)

\* doFlush, up to its await.
doFlush(S, via) ==
    IF S.stopped THEN S
    ELSE LET S1 == [S EXCEPT !.timer = <<>>]
         IN  IF S1.inFlight THEN [S1 EXCEPT !.pendingUpdate = TRUE]
             ELSE sendOrEdit([S1 EXCEPT !.inFlight = TRUE],
                             buildMessage(S1.thinkingText, S1.activeTools,
                                          S1.completedTools, toolDisplay,
                                          maxLength),
                             via)

\* Mutant of schedule: the timeout is armed with no delay.
schedule_NoWait(S) ==
    IF S.timer # <<>> \/ S.stopped THEN S
    ELSE [S EXCEPT !.timer = <<now>>]

\* Mutant of schedule: the stopped flag is not consulted.
schedule_IgnoresStopped(S) ==
    IF S.timer # <<>> THEN S
    ELSE LET wait == updateInterval - (now - S.lastSentAt)
             delay == IF wait > 0 THEN wait ELSE 0
         IN  [S EXCEPT !.timer = <<now + delay>>]

\* Mutant of schedule: the timer always waits a whole interval from now.
schedule_FullInterval(S) ==
    IF S.timer # <<>> \/ S.stopped THEN S
    ELSE [S EXCEPT !.timer = <<now + updateInterval>>]

schedule(S) ==
    IF S.timer # <<>> \/ S.stopped THEN S
    ELSE LET wait == updateInterval - (now - S.lastSentAt)
             delay == IF wait > 0 THEN wait ELSE 0
         IN  [S EXCEPT !.timer = <<now + delay>>]

\* Mutant of doFlushResume: the owed follow-up is forgotten.
doFlushResume_NoFollowUp(S) ==
    [S EXCEPT !.inFlight = FALSE, !.pendingUpdate = FALSE]

\* doFlush after its await: the finally block and the owed follow-up.
doFlushResume(S) ==
    LET S1 == [S EXCEPT !.inFlight = FALSE]
    IN  IF S1.pendingUpdate THEN schedule([S1 EXCEPT !.pendingUpdate = FALSE])
        ELSE S1

\* Mutant of triggerUpdate: a trigger during a delivery is dropped.
triggerUpdate_DropsInFlight(S) ==
    IF S.stopped \/ S.inFlight THEN S
    ELSE IF S.timer = <<>> /\ now - S.lastSentAt >= updateInterval
    THEN doFlush(S, "trigger")
    ELSE schedule(S)

\* Mutant of triggerUpdate: a trigger that comes too early arms no timer.
triggerUpdate_NoSchedule(S) ==
    IF S.stopped THEN S
    ELSE IF S.inFlight THEN schedule([S EXCEPT !.pendingUpdate = TRUE])
    ELSE IF S.timer = <<>> /\ now - S.lastSentAt >= updateInterval
    THEN doFlush(S, "trigger")
    ELSE S

triggerUpdate(S) ==
    IF S.stopped THEN S
    ELSE IF S.inFlight THEN schedule([S EXCEPT !.pendingUpdate = TRUE])
    ELSE IF S.timer = <<>> /\ now - S.lastSentAt >= updateInterval
    THEN doFlush(S, "trigger")
    ELSE schedule(S)

(***************************************************************************)
(* The updater's methods, as functions of the closure's state              *)
(***************************************************************************)
\* clearTimeout(timer); timer = undefined, under stopped = true.
Terminate(S) ==
    [S EXCEPT !.stopped = TRUE, !.timer = <<>>]

\* activeTools.set(id, entry): a known key keeps its place in the order.
MapSet(map, id, entry) ==
    IF \E i \in 1..Len(map) : map[i].id = id
    THEN [i \in 1..Len(map) |->
            IF map[i].id = id THEN [id |-> id, entry |-> entry] ELSE map[i]]
    ELSE Append(map, [id |-> id, entry |-> entry])

\* activeTools.get(id): <<>> or <<entry>>.
MapGet(map, id) ==
    LET at == {i \in 1..Len(map) : map[i].id = id}
    IN  IF at = {} THEN <<>> ELSE <<map[CHOOSE i \in at : TRUE].entry>>

\* activeTools.delete(id).
MapDelete(map, id) ==
    SelectSeq(map, LAMBDA e : e.id # id)

updateFn(S, text) ==
    triggerUpdate([S EXCEPT !.thinkingText = <<text>>])

stopFn(S) ==
    Terminate(S)

\* delete(), up to its await.
deleteFn(S) ==
    LET S1 == Terminate(S)
    IN  IF S1.messageId # 0
        THEN [S1 EXCEPT !.calls =
                Append(@, [op |-> "deleteMessage", by |-> "delete",
                           messageId |-> S1.messageId, text |-> <<>>])]
        ELSE S1

\* The text collapse() edits in: summary || the generated default.
collapseText(summary, completed) ==
    IF summary # <<>> /\ summary[1] # <<>> THEN summary[1]
    ELSE <<"UD83E", "UDDE0", " ", "<", "b", ">", "T", "h", "i", "n", "k", "i",
           "n", "g", " ", "c", "o", "m", "p", "l", "e", "t", "e", "<", "/", "b",
           ">", " ", "U2014", " ">>
         \o NumberToString(Len(completed))
         \o <<" ", "t", "o", "o", "l">>
         \o (IF Len(completed) # 1 THEN <<"s">> ELSE <<>>)
         \o <<" ", "u", "s", "e", "d">>

\* collapse(summary), up to its await.
collapseFn(S, summary) ==
    LET S1 == Terminate(S)
    IN  IF S1.messageId = 0 THEN S1
        ELSE [S1 EXCEPT !.calls =
                Append(@, [op |-> "editMessageText", by |-> "collapse",
                           messageId |-> S1.messageId,
                           text |-> collapseText(summary, S1.completedTools)])]

\* startedAt, and the duration toolEnd computes from it, are written and never
\* read in this file: the entries of the model carry neither.
toolStartFn(S, id, name, args) ==
    triggerUpdate([S EXCEPT !.activeTools =
        MapSet(@, id, [name |-> name, args |-> args])])

\* Mutant of toolEndFn: the completed entry is pushed and never deleted from
\* the active mapping.
toolEndFn_KeepsActive(S, id, failed) ==
    LET got == MapGet(S.activeTools, id)
    IN  IF got # <<>>
        THEN triggerUpdate(
               [S EXCEPT !.completedTools =
                            Append(@, [name |-> got[1].name,
                                       args |-> got[1].args,
                                       failed |-> failed])])
        ELSE triggerUpdate(S)

\* Mutant of toolEndFn: an id that is not active is completed all the same.
toolEndFn_NoGuard(S, id, failed) ==
    LET got == MapGet(S.activeTools, id)
    IN  triggerUpdate(
          [S EXCEPT !.activeTools = MapDelete(@, id),
                    !.completedTools =
                       Append(@, [name |-> IF got # <<>> THEN got[1].name ELSE <<>>,
                                  args |-> IF got # <<>> THEN got[1].args ELSE <<>>,
                                  failed |-> failed])])

toolEndFn(S, id, failed) ==
    LET got == MapGet(S.activeTools, id)
    IN  IF got # <<>>
        THEN triggerUpdate(
               [S EXCEPT !.activeTools = MapDelete(@, id),
                         !.completedTools =
                            Append(@, [name |-> got[1].name,
                                       args |-> got[1].args,
                                       failed |-> failed])])
        ELSE triggerUpdate(S)

\* Mutant of settle: the identifier of the created message is not kept.
settle_ForgetsId(S, call, ok, newId) ==
    IF call.by = "sendOrEdit" THEN doFlushResume(S)
    ELSE IF call.by = "delete" THEN [S EXCEPT !.messageId = 0]
    ELSE S

\* Mutant of settle: a failed edit or create forgets the message identifier.
settle_ClearsOnFailure(S, call, ok, newId) ==
    IF call.by = "sendOrEdit"
    THEN doFlushResume(IF ok /\ call.op = "sendMessage"
                       THEN [S EXCEPT !.messageId = newId]
                       ELSE IF ok THEN S ELSE [S EXCEPT !.messageId = 0])
    ELSE IF call.by = "delete" THEN [S EXCEPT !.messageId = 0]
    ELSE S

\* A transport call settles: the rest of the async function that awaits it.
settle(S, call, ok, newId) ==
    IF call.by = "sendOrEdit"
    THEN doFlushResume(IF ok /\ call.op = "sendMessage"
                       THEN [S EXCEPT !.messageId = newId] ELSE S)
    ELSE IF call.by = "delete" THEN [S EXCEPT !.messageId = 0]
    ELSE S

\* seq without its i-th element.
Without(seq, i) ==
    SubSeq(seq, 1, i - 1) \o SubSeq(seq, i + 1, Len(seq))

(***************************************************************************)
(* Steps.  Calls of the methods come from the caller at any time; a        *)
(* timeout or a transport completion is a task of its own, run only when   *)
(* no continuation (resume) is queued.  The On... steps leave the burst    *)
(* observer to the specification that uses them.                           *)
(***************************************************************************)
OnUpdate(text) ==
    /\ Commit(updateFn(Cur, text))
    /\ UNCHANGED <<now, created>>

\* The timeout's callback: timer = undefined; void doFlush().
OnTimer ==
    /\ timer # <<>>
    /\ now >= timer[1]
    /\ ~resume
    /\ Commit(doFlush([Cur EXCEPT !.timer = <<>>], "timer"))
    /\ UNCHANGED <<now, created>>

\* doFlush resumes after a sendOrEdit that returned without a call.
OnResume ==
    /\ resume
    /\ Commit(doFlushResume([Cur EXCEPT !.resume = FALSE]))
    /\ UNCHANGED <<now, created>>

\* The transport settles call i: it resolves (ok) or rejects.
OnComplete(i, ok) ==
    /\ i \in 1..Len(calls)
    /\ ~resume
    /\ LET made == ok /\ calls[i].op = "sendMessage"
       IN  /\ Commit(settle([Cur EXCEPT !.calls = Without(@, i)], calls[i], ok,
                            created + 1))
           /\ created' = IF made THEN created + 1 ELSE created
    /\ UNCHANGED now

OnTick ==
    /\ now < MaxTime
    /\ now' = now + 1
    /\ UNCHANGED <<messageId, thinkingText, activeTools, completedTools,
                   lastSentContent, lastSentAt, timer, inFlight, stopped,
                   pendingUpdate, calls, resume, created, log>>

(***************************************************************************)
(* Actions of the updater under any caller                                 *)
(***************************************************************************)
start ==
    /\ Commit(triggerUpdate(Cur))
    /\ UNCHANGED <<now, created, burst>>

update(text) ==
    /\ OnUpdate(text)
    /\ UNCHANGED burst

flush ==
    /\ Commit(doFlush(Cur, "flush"))
    /\ UNCHANGED <<now, created, burst>>

stop ==
    /\ Commit(stopFn(Cur))
    /\ UNCHANGED <<now, created, burst>>

delete ==
    /\ Len(calls) < MaxCalls
    /\ Commit(deleteFn(Cur))
    /\ UNCHANGED <<now, created, burst>>

collapse(summary) ==
    /\ Len(calls) < MaxCalls
    /\ Commit(collapseFn(Cur, summary))
    /\ UNCHANGED <<now, created, burst>>

toolStart(id, name, args) ==
    /\ Commit(toolStartFn(Cur, id, name, args))
    /\ UNCHANGED <<now, created, burst>>

toolEnd(id, failed) ==
    /\ MapGet(activeTools, id) # <<>> => Len(completedTools) < MaxCompleted
    /\ Commit(toolEndFn(Cur, id, failed))
    /\ UNCHANGED <<now, created, burst>>

TimerFire ==
    /\ OnTimer
    /\ UNCHANGED burst

Resume ==
    /\ OnResume
    /\ UNCHANGED burst

Complete(i, ok) ==
    /\ OnComplete(i, ok)
    /\ UNCHANGED burst

Tick ==
    /\ OnTick
    /\ UNCHANGED burst

Next ==
    \/ start
    \/ \E text \in Texts : update(text)
    \/ flush
    \/ \E summary \in Summaries : collapse(summary)
    \/ delete
    \/ stop
    \/ \E id \in ToolIds, t \in ToolInputs : toolStart(id, t.name, t.args)
    \/ \E id \in ToolIds : toolEnd(id, FALSE)
    \/ TimerFire
    \/ Resume
    \/ \E i \in 1..MaxCalls, ok \in BOOLEAN : Complete(i, ok)
    \/ Tick

Spec ==
    Init /\ [][Next]_vars

(***************************************************************************)
(* The caller stops calling one interval before the clock stops, the       *)
(* transport resolves every call, and no terminal method is called.        *)
(* Timeouts, continuations and completions are tasks of the event loop,    *)
(* which runs every task that is ready.                                    *)
(***************************************************************************)
CallerActive ==
    now + updateInterval <= MaxTime

LiveStart ==
    CallerActive /\ start

LiveUpdate(text) ==
    CallerActive /\ update(text)

LiveFlush ==
    CallerActive /\ flush

LiveToolStart(id, name, args) ==
    CallerActive /\ toolStart(id, name, args)

LiveToolEnd(id, failed) ==
    CallerActive /\ toolEnd(id, failed)

Resolve ==
    \E i \in 1..MaxCalls : Complete(i, TRUE)

NextLive ==
    \/ LiveStart
    \/ \E text \in Texts : LiveUpdate(text)
    \/ LiveFlush
    \/ \E id \in ToolIds, t \in ToolInputs : LiveToolStart(id, t.name, t.args)
    \/ \E id \in ToolIds : LiveToolEnd(id, FALSE)
    \/ TimerFire
    \/ Resume
    \/ Resolve
    \/ Tick

\* The timeout is due: TimerFire is enabled, and taking it clears the timer.
TimerDue ==
    timer # <<>> /\ now >= timer[1] /\ ~resume

\* Weak fairness of TimerFire, with its enabling condition written out.
TimerFairness ==
    <>[]TimerDue => []<><<TimerFire>>_vars

SpecLive ==
    /\ Init
    /\ [][NextLive]_vars
    /\ TimerFairness
    /\ WF_vars(Resume)
    /\ WF_vars(Resolve)
    /\ WF_vars(Tick)

(***************************************************************************)
(* The burst scenario: on a fresh session the caller only calls update(),  *)
(* with texts that differ, all within a window shorter than the interval.  *)
(***************************************************************************)
\* "a", "b<", "c<": the last two differ and render alike.
BurstTexts ==
    {<<"a">>, <<"b", "<">>, <<"c", "<">>}

\* The counter of the burst's delivery calls saturates here.
MaxSends ==
    3

\* The observer counts the delivery calls started.
BurstCounts ==
    IF log' # log /\ burst.sends < MaxSends THEN burst.sends + 1 ELSE burst.sends

BurstUpdate(text) ==
    /\ text \notin burst.used
    /\ burst.n > 0 => now - burst.first < updateInterval
    /\ OnUpdate(text)
    /\ burst' = [n |-> burst.n + 1,
                 first |-> IF burst.n = 0 THEN now ELSE burst.first,
                 text |-> IF burst.n = 0 THEN <<text>> ELSE burst.text,
                 used |-> burst.used \cup {text},
                 sends |-> BurstCounts]

BurstTimerFire ==
    /\ OnTimer
    /\ burst' = [burst EXCEPT !.sends = BurstCounts]

BurstResume ==
    /\ OnResume
    /\ burst' = [burst EXCEPT !.sends = BurstCounts]

BurstComplete(i, ok) ==
    /\ OnComplete(i, ok)
    /\ burst' = [burst EXCEPT !.sends = BurstCounts]

BurstTick ==
    /\ OnTick
    /\ burst' = [burst EXCEPT !.sends = BurstCounts]

NextBurst ==
    \/ \E text \in BurstTexts : BurstUpdate(text)
    \/ BurstTimerFire
    \/ BurstResume
    \/ \E i \in 1..MaxCalls, ok \in BOOLEAN : BurstComplete(i, ok)
    \/ BurstTick

SpecBurst ==
    Init /\ [][NextBurst]_vars

(***************************************************************************)
(* A caller whose only terminal call is delete(): a stopped session is one *)
(* on which delete() was called.                                           *)
(***************************************************************************)
NextDelete ==
    \/ start
    \/ \E text \in Texts : update(text)
    \/ flush
    \/ delete
    \/ \E id \in ToolIds, t \in ToolInputs : toolStart(id, t.name, t.args)
    \/ \E id \in ToolIds : toolEnd(id, FALSE)
    \/ TimerFire
    \/ Resume
    \/ \E i \in 1..MaxCalls, ok \in BOOLEAN : Complete(i, ok)
    \/ Tick

SpecDelete ==
    Init /\ [][NextDelete]_vars

(***************************************************************************)
(* A caller that only starts and ends tools, two of them, each id with a   *)
(* name of its own, long enough to complete more than ten.                 *)
(***************************************************************************)
\* The completed-tool sequence is not grown beyond MaxShown entries here.
MaxShown ==
    11

\* At most MaxFailures of the completions are failures.
MaxFailures ==
    1

\* At most MaxBash of the completions are of "t2".
MaxBash ==
    1

\* toolStart's arguments: "t1" is a Read with a path, "t2" a Bash without args.
ToolKit ==
    {[id |-> "t1", name |-> <<"R", "e", "a", "d">>,
      args |-> << <<[key |-> "path", val |-> StringVal(<<"/", "a">>)]>> >>],
     [id |-> "t2", name |-> <<"B", "a", "s", "h">>, args |-> <<>>]}

\* The number of failed entries of the completed sequence.
Failures ==
    Cardinality({i \in 1..Len(completedTools) : completedTools[i].failed})

\* The number of completed entries named name.
Completions(name) ==
    Cardinality({i \in 1..Len(completedTools) : completedTools[i].name = name})

ToolsStart(id, name, args) ==
    toolStart(id, name, args)

ToolsEnd(id, failed) ==
    /\ MapGet(activeTools, id) # <<>>
          => /\ Len(completedTools) < MaxShown
             /\ failed => Failures < MaxFailures
             /\ id = "t2" => Completions(MapGet(activeTools, id)[1].name) < MaxBash
    /\ Commit(toolEndFn(Cur, id, failed))
    /\ UNCHANGED <<now, created, burst>>

NextTools ==
    \/ \E c \in ToolKit : ToolsStart(c.id, c.name, c.args)
    \/ \E c \in ToolKit, failed \in BOOLEAN : ToolsEnd(c.id, failed)

SpecTools ==
    Init /\ [][NextTools]_vars

(***************************************************************************)
(* Properties                                                              *)
(***************************************************************************)
\* The render of the current session state.
Render ==
    buildMessage(thinkingText, activeTools, completedTools, toolDisplay,
                 maxLength)

\* The outstanding transport calls issued by a delivery cycle.
DeliveryCalls ==
    {i \in 1..Len(calls) : calls[i].by = "sendOrEdit"}

\* A delivery call is started in this step.
DeliveryStarts ==
    log' # log

\* C1: at most one delivery call (the create or edit of a delivery cycle) is
\* outstanding in every reachable state.
C1_SingleFlight ==
    Cardinality(DeliveryCalls) <= 1

\* C1 witness: a delivery call is outstanding and a trigger that arrived
\* meanwhile was coalesced, with its timer armed.
C1_Witness ==
    /\ Cardinality(DeliveryCalls) = 1
    /\ pendingUpdate
    /\ timer # <<>>

\* C2 (as claimed, in the case it singles out): while a delivery call is
\* outstanding no other remote operation (collapse()'s edit, delete()'s remove)
\* is outstanding, so that at most one operation is on the wire.
C2_OneRemoteOperation ==
    DeliveryCalls # {} => Len(calls) = 1

\* C3 (as claimed): every delivery call but the first starts at least one
\* update interval after the start of the delivery call before it.
C3_SpacingAlways ==
    [][(DeliveryStarts /\ log # <<>>)
         => log'[1].at - log[1].at >= updateInterval]_vars

\* C3 (amended): every delivery call but the first starts at least one update
\* interval after the start of the delivery call before it, unless flush()
\* started it.
C3_SpacingUnlessFlush ==
    [][(DeliveryStarts /\ log # <<>>)
         => \/ log'[1].at - log[1].at >= updateInterval
            \/ log'[1].via = "flush"]_vars

\* C3 witness: a timer started an edit, that is a delivery after the first.
C3_Witness ==
    /\ log # <<>>
    /\ log[1].via = "timer"
    /\ log[1].op = "editMessageText"

\* C6 (as claimed): when a delivery call fails, the last-delivered content and
\* timestamp are those from before the call.
C6_FailureKeepsDeliveryState ==
    [][\A i \in 1..Len(calls) :
         (calls[i].by = "sendOrEdit" /\ Complete(i, FALSE))
           => /\ lastSentContent' = calls[i].prevContent
              /\ lastSentAt' = calls[i].prevAt]_vars

\* C7: a step whose session state renders to the last delivered content
\* starts no delivery call and leaves the delivery state alone (stated as: a
\* step that starts a delivery call or changes the delivery state ends in a
\* state that renders otherwise); every delivery call started differs in
\* content from the one before it.
C7_Dedupe ==
    [][/\ (\/ log' # log
           \/ lastSentContent' # lastSentContent
           \/ lastSentAt' # lastSentAt
           \/ Cardinality(DeliveryCalls') > Cardinality(DeliveryCalls))
            => buildMessage(thinkingText', activeTools', completedTools',
                            toolDisplay, maxLength) # lastSentContent
       /\ DeliveryStarts
            => /\ log'[1].text # lastSentContent
               /\ log # <<>> => log'[1].text # log[1].text]_vars

\* C7 witness: after a delivery, a cycle found its render already delivered
\* and returned without a call.
C7_Witness ==
    /\ resume
    /\ log # <<>>
    /\ Render = lastSentContent
    /\ DeliveryCalls = {}

\* C8: once stopped, no timer is armed, no delivery call is started, and the
\* updater stays stopped.
C8_StoppedIsQuiet ==
    /\ [](stopped => timer = <<>>)
    /\ [][stopped => /\ stopped'
                     /\ ~DeliveryStarts
                     /\ Cardinality(DeliveryCalls') <= Cardinality(DeliveryCalls)
         ]_vars

\* C8 witness: stopped while a delivery is in flight and a coalesced update is
\* owed, with the session state no longer the one being delivered.
C8_Witness ==
    /\ stopped
    /\ inFlight
    /\ pendingUpdate
    /\ DeliveryCalls # {}
    /\ Render # lastSentContent

\* C9 (as claimed): once stopped, a call of stop(), delete() or collapse()
\* starts no transport call and changes no state.
C9_TerminalIdempotent ==
    [][(stopped /\ (stop \/ delete \/ \E summary \in Summaries : collapse(summary)))
         => UNCHANGED vars]_vars

\* C10 (as claimed, for the states in which a message exists or its create is
\* in flight): collapse() on an Active session issues exactly one edit, of the
\* message, with the summary or the generated default, and stops the session.
C10_CollapseEditsOnce ==
    [][\A summary \in Summaries :
         (/\ ~stopped
          /\ \/ messageId # 0
             \/ \E i \in DeliveryCalls : calls[i].op = "sendMessage"
          /\ collapse(summary))
           => /\ stopped'
              /\ Len(calls') = Len(calls) + 1
              /\ calls'[Len(calls')].by = "collapse"
              /\ calls'[Len(calls')].op = "editMessageText"
              /\ calls'[Len(calls')].text = collapseText(summary, completedTools)
      ]_vars

\* Nothing is armed, in flight or owed.
Quiet ==
    /\ timer = <<>>
    /\ calls = <<>>
    /\ ~inFlight
    /\ ~resume
    /\ ~pendingUpdate

\* The session state has been mutated.
Mutated ==
    thinkingText # <<>> \/ activeTools # <<>> \/ completedTools # <<>>

\* C4: when the calls have ceased, every call resolves and the event loop runs,
\* the session comes to rest with nothing armed or in flight, and, if its state
\* was mutated, with the render of that state as the content last delivered.
C4_EventuallyDelivered ==
    <>[](/\ Quiet
         /\ Mutated => /\ lastSentContent = Render
                       /\ log # <<>>
                       /\ log[1].text = Render)

\* C4 witness: at rest, the render of a mutated state is delivered, by an
\* edit that a timer started (the follow-up of a coalesced mutation).
C4_Witness ==
    /\ Quiet
    /\ Mutated
    /\ lastSentContent = Render
    /\ log # <<>>
    /\ log[1].via = "timer"
    /\ log[1].op = "editMessageText"

\* The burst is over: at least two updates were made and the updater is at rest.
BurstDone ==
    burst.n >= 2 /\ Quiet

\* C5 (as claimed): after the burst exactly one delivery call has been made,
\* with the render of the last text, no earlier than one interval after the
\* first update.
C5_BurstOneDelivery ==
    BurstDone => /\ burst.sends = 1
                 /\ log[1].text = Render
                 /\ log[1].at >= burst.first + updateInterval

\* C5 (amended): the first update of the burst is delivered at once; the rest
\* of the burst is coalesced into one further delivery call, with the render
\* of the last text and no earlier than one interval after the first update;
\* that call is not made when the last text renders like the first.
C5_BurstTwoDeliveries ==
    /\ burst.n >= 1 => /\ burst.sends >= 1
                       /\ burst.sends = 1
                            => /\ log[1].at = burst.first
                               /\ log[1].text = buildMessage(burst.text, <<>>, <<>>,
                                                             toolDisplay, maxLength)
    /\ BurstDone =>
         IF Render = buildMessage(burst.text, <<>>, <<>>, toolDisplay, maxLength)
         THEN burst.sends = 1
         ELSE /\ burst.sends = 2
              /\ log[1].text = Render
              /\ log[1].at >= burst.first + updateInterval

\* C5 witness: a burst of three updates is over, with two delivery calls made.
C5_Witness ==
    BurstDone /\ burst.n = 3 /\ burst.sends = 2

\* C11 (as claimed, under a caller whose only terminal call is delete()): once
\* delete() has been called and every transport call has completed, the
\* session holds no message identifier.
C11_DeleteRemoves ==
    (stopped /\ calls = <<>> /\ ~resume /\ ~inFlight) => messageId = 0

\* C12: toolEnd(id, failed) for an id that is not active leaves the active
\* mapping and the completed sequence unchanged; for an active id it removes
\* that entry alone from the active mapping and appends one entry, the one
\* removed with the given failure flag, to the end of the completed sequence.
C12_ToolEndFrame ==
    [][\A c \in ToolKit, failed \in BOOLEAN :
         ToolsEnd(c.id, failed) =>
           LET at == {k \in 1..Len(activeTools) : activeTools[k].id = c.id}
           IN  IF at = {}
               THEN UNCHANGED <<activeTools, completedTools>>
               ELSE LET k == CHOOSE k \in at : TRUE
                    IN  /\ Cardinality(at) = 1
                        /\ activeTools' = Without(activeTools, k)
                        /\ Len(completedTools') = Len(completedTools) + 1
                        /\ SubSeq(completedTools', 1, Len(completedTools))
                             = completedTools
                        /\ completedTools'[Len(completedTools')]
                             = [name |-> activeTools[k].entry.name,
                                args |-> activeTools[k].entry.args,
                                failed |-> failed]]_vars

\* C12 witness: the second of two active tools was ended as failed, and the
\* first is still active.
C12_Witness ==
    /\ Len(completedTools) = 1
    /\ completedTools[1].failed
    /\ completedTools[1].name = <<"B", "a", "s", "h">>
    /\ Len(activeTools) = 1
    /\ activeTools[1].id = "t1"

\* The ids of the active mapping.
ActiveIds ==
    {activeTools[k].id : k \in 1..Len(activeTools)}

\* The completed sequence is extended, or left as it is, by this step.
CompletedGrows ==
    /\ Len(completedTools') >= Len(completedTools)
    /\ SubSeq(completedTools', 1, Len(completedTools)) = completedTools

\* C13 (as claimed): the completed sequence only grows, and a tool id that has
\* been moved to completed is not in the active mapping in any later state.
C13_NeverReenters ==
    [][/\ CompletedGrows
       /\ \A c \in ToolKit :
            Cardinality({i \in 1..Len(completedTools') :
                           completedTools'[i].name = c.name}) > 0
              => c.id \notin ActiveIds']_vars

\* C13 (amended): the completed sequence only grows; the toolEnd that moves an
\* id to completed removes it from the active mapping, and an id enters the
\* active mapping by a toolStart of that id and by nothing else (a toolStart
\* that reuses a completed id is accepted).
C13_ReentersByToolStart ==
    [][/\ CompletedGrows
       /\ \A c \in ToolKit :
            /\ (c.id \in ActiveIds /\ \E failed \in BOOLEAN : ToolsEnd(c.id, failed))
                 => c.id \notin ActiveIds'
            /\ (c.id \notin ActiveIds /\ c.id \in ActiveIds')
                 => ToolsStart(c.id, c.name, c.args)]_vars

\* C13 witness: "t1" has completed and is active again.
C13_Witness ==
    /\ Completions(<<"R", "e", "a", "d">>) > 0
    /\ "t1" \in ActiveIds

\* C14: the message identifier is set only by a create that resolves, and once
\* set it changes only by being cleared when a remove issued by delete()
\* settles.
C14_MessageIdStable ==
    [][/\ (messageId = 0 /\ messageId' # 0)
            => \E i \in DeliveryCalls :
                 calls[i].op = "sendMessage" /\ Complete(i, TRUE)
       /\ (messageId # 0 /\ messageId' # messageId)
            => /\ messageId' = 0
               /\ \E i \in 1..Len(calls), ok \in BOOLEAN :
                    calls[i].by = "delete" /\ Complete(i, ok)]_vars

\* C14 witness: the identifier is held by a stopped session after an edit has
\* been made and settled.
C14_Witness ==
    /\ messageId # 0
    /\ stopped
    /\ calls = <<>>
    /\ log # <<>>
    /\ log[1].op = "editMessageText"

\* C15 (as claimed): once the updater is stopped, no step changes the thinking
\* text, the active mapping or the completed sequence.
C15_NoMutationAfterTerminal ==
    [][stopped => UNCHANGED <<thinkingText, activeTools, completedTools>>]_vars

\* C16: on an Active session that has delivered, a render that differs from
\* the last delivered content is never left waiting for more than one interval
\* plus one delivery: while a delivery is in flight the follow-up is owed, and
\* otherwise a timer is armed that is due at once or no later than one interval
\* after the start of the last delivery (which no unreflected mutation
\* precedes).
C16_BoundedStaleness ==
    (~stopped /\ log # <<>>)
      => IF inFlight
         THEN pendingUpdate \/ Render = lastSentContent
         ELSE \/ /\ timer # <<>>
                 /\ \/ timer[1] <= now
                    \/ timer[1] <= lastSentAt + updateInterval
              \/ Render = lastSentContent

\* C16 witness: a mutation made after the last delivery has settled waits for
\* a timer due one interval after that delivery started.
C16_Witness ==
    /\ ~stopped
    /\ ~inFlight
    /\ calls = <<>>
    /\ log # <<>>
    /\ timer = <<lastSentAt + updateInterval>>
    /\ now > lastSentAt
    /\ now < timer[1]
    /\ Render # lastSentContent

\* C17: flush() on an Active session with no delivery in flight cancels the
\* timer and runs a delivery cycle at once (a delivery call with the render,
\* unless the render is the content last delivered); with a delivery in flight
\* it starts no call and marks the update as owed, and when the call in flight
\* settles the owed cycle is scheduled.
C17_Flush ==
    [][/\ (~stopped /\ UNCHANGED <<thinkingText, activeTools, completedTools>>
           /\ flush)
            => IF inFlight
               THEN /\ ~DeliveryStarts
                    /\ calls' = calls
                    /\ pendingUpdate'
               ELSE /\ timer' = <<>>
                    /\ IF Render = lastSentContent
                       THEN ~DeliveryStarts /\ calls' = calls
                       ELSE /\ DeliveryStarts
                            /\ log'[1] = [text |-> Render, at |-> now,
                                          op |-> IF messageId = 0
                                                 THEN "sendMessage"
                                                 ELSE "editMessageText",
                                          via |-> "flush"]
                            /\ Len(calls') = Len(calls) + 1
       /\ (~stopped /\ pendingUpdate /\ calls' # calls /\ ~DeliveryStarts)
            => \A i \in DeliveryCalls, ok \in BOOLEAN :
                 Complete(i, ok)
                   => /\ ~inFlight'
                      /\ ~pendingUpdate'
                      /\ timer' # <<>>]_vars

\* C17 witness: flush() started an edit less than one interval after the
\* delivery before it.
C17_Witness ==
    /\ log # <<>>
    /\ log[1].via = "flush"
    /\ log[1].op = "editMessageText"
    /\ \E i \in DeliveryCalls :
         /\ calls[i].prevAt > 0
         /\ log[1].at < calls[i].prevAt + updateInterval

\* The lines the tool section is to show: the last ten completed entries at
\* most, in completion order, then the active entries in insertion order.
ExpectedLines ==
    LET n == Len(completedTools)
        first == IF n > 10 THEN n - 9 ELSE 1
    IN  [k \in 1..(n - first + 1) |->
           [icon |-> IF completedTools[first + k - 1].failed
                     THEN "U274C" ELSE "U2705",
            name |-> completedTools[first + k - 1].name]]
        \o [k \in 1..Len(activeTools) |->
              [icon |-> "U23F3", name |-> activeTools[k].entry.name]]

\* C18: with tool display enabled and no thinking text, the render of a session
\* with tools has one line for each of the last min(10, n) completed entries,
\* in completion order and marked by its failure flag, followed by one line
\* for each active entry in insertion order, marked in progress; each line is
\* the mark, a space and the tool's name in a code element.
C18_LastTenCompleted ==
    (activeTools # <<>> \/ completedTools # <<>>)
      => \A r \in {Render} :
           LET starts == {1} \cup {p + 1 : p \in {q \in 1..Len(r) : r[q] = "\n"}}
           IN  /\ Cardinality(starts) = Len(ExpectedLines)
               /\ Cardinality(starts) <= 10 + Len(activeTools)
               /\ \A k \in 1..Len(ExpectedLines) :
                    LET p == CHOOSE p \in starts :
                               Cardinality({q \in starts : q < p}) = k - 1
                    IN  /\ r[p] = ExpectedLines[k].icon
                        /\ SubSeq(r, p + 1, p + 7)
                             = <<" ", "<", "c", "o", "d", "e", ">">>
                        /\ SubSeq(r, p + 8, p + 7 + Len(ExpectedLines[k].name))
                             = ExpectedLines[k].name
                        /\ SubSeq(r, p + 8 + Len(ExpectedLines[k].name),
                                     p + 14 + Len(ExpectedLines[k].name))
                             = <<"<", "/", "c", "o", "d", "e", ">">>

\* C18 witness: eleven tools have completed, the first of them as a failure
\* (it is no longer shown), and two are active, "t2" before "t1".
C18_Witness ==
    /\ Len(completedTools) = 11
    /\ completedTools[1].failed
    /\ Len(activeTools) = 2
    /\ activeTools[1].id = "t2"

\* C19: on a session that is not stopped and has started a delivery, a render
\* that differs from the last delivered content has a delivery in flight or a
\* timer armed; and pendingUpdate is set only while a delivery is in flight.
C19_NoLostUpdate ==
    /\ pendingUpdate => inFlight
    /\ (~stopped /\ log # <<>> /\ ~inFlight /\ timer = <<>>)
         => Render = lastSentContent

\* C19 witness: a mutation made during a delivery is owed, and after a flush()
\* no timer is armed for it.
C19_Witness ==
    /\ ~stopped
    /\ inFlight
    /\ pendingUpdate
    /\ timer = <<>>
    /\ DeliveryCalls # {}
    /\ Render # lastSentContent

\* C20: at most one create of a session succeeds; a create is outstanding only
\* while no message has been created, the session holds no identifier and no
\* other delivery call is outstanding; a delivery call made after the create
\* succeeded is an edit of the message created.
C20_AtMostOneCreate ==
    /\ created <= 1
    /\ \A i \in DeliveryCalls :
         IF calls[i].op = "sendMessage"
         THEN /\ created = 0
              /\ messageId = 0
              /\ calls[i].messageId = 0
              /\ DeliveryCalls = {i}
         ELSE /\ created = 1
              /\ calls[i].op = "editMessageText"
              /\ calls[i].messageId = created

\* C20 witness: after the create succeeded, the delivery in flight is an edit
\* of the message created.
C20_Witness ==
    /\ created = 1
    /\ messageId = 1
    /\ \E i \in DeliveryCalls :
         /\ calls[i].op = "editMessageText"
         /\ calls[i].messageId = 1

====
